---- MODULE Spec2Model ----
(***************************************************************************)
(* The annotation overlay of the legal-agent-web document page:            *)
(* DocumentPage (src/app/documents/[id]/page.tsx) holds the document, the  *)
(* user annotations and the selected annotation; DocumentViewer            *)
(* (src/components/document-viewer.tsx) holds the filter, the page and the *)
(* selection, and on every render runs processContent, which parses the    *)
(* document content, splices a highlight span into every leaf a visible    *)
(* annotation touches, toggles the page containers and serialises.         *)
(*                                                                         *)
(* Strings are sequences of one-character strings, so that substring,      *)
(* replace and concatenation are computed as the code computes them.       *)
(***************************************************************************)
EXTENDS Integers, Sequences, FiniteSets, TLC

\* ------------------------------------------------------------------ bounds
DocLen == 3          \* characters in the document text
MaxClauses == 2      \* AI-detected clauses in the analysis result
MaxUser == 1         \* user annotations added in a session
MaxEvents == 2       \* UI events handled in a session
MaxSelLen == 1       \* characters in a text selection
MaxTypeLen == 4      \* characters in a clause type of any spelling
MaxDocs == 2         \* document ids the route can name
MaxFetches == 4      \* document fetches started in a session
MaxRequests == 3     \* note requests sent in a session

\* ------------------------------------------------------------------- state
VARIABLES
    document,            \* DocumentPage: the loaded analysis (content_type, content, clauses)
    userAnnotations,     \* DocumentPage: annotations added by the user
    selectedAnnotation,  \* DocumentPage: <<>> or <<annotation>> shown in the detail view
    activeFilters,       \* DocumentViewer: array of enabled clause keys
    selection,           \* DocumentViewer: <<>> or <<[text, start, end]>>
    isMounted,           \* DocumentViewer
    currentPage,         \* DocumentViewer
    totalPages,          \* DocumentViewer
    pc,                  \* "render", "forEach", "effects" or "idle"
    visibleAnnotations,  \* processContent: the sorted active annotations of the pass
    annIdx,              \* processContent: index of the next forEach iteration
    tree,                \* processContent: the parsed tree and the pass bookkeeping
    displayed,           \* the markup last handed to dangerouslySetInnerHTML
    effectDeps,          \* [ran, mounted]: dependencies the page-count effect last saw
    lastRun,             \* inputs and output of the last completed pass
    prevRun,             \* inputs and output of the pass before it
    nEvents,             \* UI events handled so far
    paramsId,            \* DocumentPage: params.id of the route (0: the page has been left)
    fetches,             \* fetchDocumentAnalysis calls awaiting their response: [req, id]
    nFetches,            \* fetches started so far
    documentId,          \* DocumentPage: document.id (0: document is null)
    loading,             \* DocumentPage
    error,               \* DocumentPage: an error message is set
    notes,               \* note service: the stored notes [id, annotation_id, text]
    nextNoteId,          \* note service: the id the next note gets
    comment,             \* AnnotationDetail
    mode,                \* AnnotationDetail: "view" or "edit"
    isSubmitting,        \* AnnotationDetail
    existingNoteId,      \* AnnotationDetail: <<>> (null) or <<id>>
    noteRequests,        \* note requests awaiting their response
    nRequests,           \* note requests sent so far
    detailGen            \* AnnotationDetail instances mounted so far

\* ----------------------------------------------------------------- strings
RECURSIVE Digits(_)
\* Number.prototype.toString for a non-negative integer.
Digits(n) ==
    LET d == <<"0", "1", "2", "3", "4", "5", "6", "7", "8", "9">>
    IN  IF n < 10 THEN <<d[n + 1]>> ELSE Digits(n \div 10) \o <<d[(n % 10) + 1]>>

\* Template literal `${n}` of an integer.
NumStr(n) == IF n < 0 THEN <<"-">> \o Digits(0 - n) ELSE Digits(n)

Clamp(i, n) == IF i < 0 THEN 0 ELSE IF i > n THEN n ELSE i

\* String.prototype.substring(a, b): both ends clamped to [0, length],
\* swapped when a > b.
Substring(s, a, b) ==
    LET ca == Clamp(a, Len(s))
        cb == Clamp(b, Len(s))
        lo == IF ca <= cb THEN ca ELSE cb
        hi == IF ca <= cb THEN cb ELSE ca
    IN  [i \in 1..(hi - lo) |-> s[lo + i]]

\* String.prototype.substring(a): to the end of the string.
SubstringFrom(s, a) == Substring(s, a, Len(s))

\* String.prototype.replace(/c/g, d)
ReplaceAll(s, c, d) == [i \in 1..Len(s) |-> IF s[i] = c THEN d ELSE s[i]]

convertClauseTypeToFrontendFormat(clauseType) == ReplaceAll(clauseType, "_", "-")

\* The backend converter with the pattern and the replacement of the
\* frontend converter.
convertClauseTypeToBackendFormatSame(clauseType) == ReplaceAll(clauseType, "_", "-")

convertClauseTypeToBackendFormat(clauseType) == ReplaceAll(clauseType, "-", "_")

\* Array.prototype.includes
Includes(arr, x) == \E i \in 1..Len(arr) : arr[i] = x

\* ----------------------------------------------------------- clause catalog
ForceMajeure == <<"f","o","r","c","e","-","m","a","j","e","u","r","e">>
LimitationOfLiability ==
    <<"l","i","m","i","t","a","t","i","o","n","-","o","f","-",
      "l","i","a","b","i","l","i","t","y">>
Assignment == <<"a","s","s","i","g","n","m","e","n","t">>
Severability == <<"s","e","v","e","r","a","b","i","l","i","t","y">>
NoWaiver == <<"n","o","-","w","a","i","v","e","r">>

\* Object.keys(CLAUSES), in insertion order.
ClauseKeys == <<ForceMajeure, LimitationOfLiability, Assignment, Severability, NoWaiver>>

ClauseNames ==
    <<  <<"F","o","r","c","e"," ","M","a","j","e","u","r","e">>,
        <<"L","i","m","i","t","a","t","i","o","n"," ","o","f"," ",
          "L","i","a","b","i","l","i","t","y">>,
        <<"A","s","s","i","g","n","m","e","n","t">>,
        <<"S","e","v","e","r","a","b","i","l","i","t","y">>,
        <<"N","o"," ","W","a","i","v","e","r">>  >>

NoClauseInfo == [found |-> FALSE, name |-> <<>>]

\* clauses[key] of the CLAUSES record: undefined for a key it does not have.
CLAUSES(key) ==
    IF Includes(ClauseKeys, key)
    THEN [found |-> TRUE,
          name |-> ClauseNames[CHOOSE i \in 1..Len(ClauseKeys) : ClauseKeys[i] = key]]
    ELSE NoClauseInfo

ReviewComments == <<"r","e","v","i","e","w","-","c","o","m","m","e","n","t","s">>
UserReason == <<"U","s","e","r"," ","a","n","n","o","t","a","t","i","o","n">>
UserConfidence == 100

\* ---------------------------------------------------------------- document
DocAlphabet == <<"d0", "d1", "d2", "d3", "d4", "d5", "d6", "d7">>

\* The document's original text: the character at offset i is DocAlphabet[i+1],
\* so every character of the text is distinguishable.
DocText == [i \in 1..DocLen |-> DocAlphabet[i]]

NoPosition == [has |-> FALSE, start |-> 0, end |-> 0]

Position(s, e) == [has |-> TRUE, start |-> s, end |-> e]

\* A text node of the tree.
TextNode(s) ==
    [k |-> "text", s |-> s, tip |-> <<>>, type |-> <<>>, annId |-> <<>>,
     hasConf |-> FALSE, conf |-> <<>>, user |-> FALSE, src |-> 0]

\* <span data-start data-end> as it stands in the document content: one text
\* node holding the characters [start, end) of the text.
LeafMarkup(s, e, page) ==
    [start |-> s, end |-> e, page |-> page,
     kids |-> <<TextNode(Substring(DocText, s, e))>>]

\* The contents the analysis service can return: content_type, the number of
\* .page containers with their style.display, and the leaf spans in document
\* order (page 0: outside every .page container).
OnePage ==
    [content_type |-> "html", pages |-> <<"">>,
     leaves |-> <<LeafMarkup(0, DocLen, 1)>>]

TwoPages ==
    [content_type |-> "html", pages |-> <<"", "">>,
     leaves |-> <<LeafMarkup(0, DocLen - 1, 1), LeafMarkup(DocLen - 1, DocLen, 2)>>]

NoPages ==
    [content_type |-> "html", pages |-> <<>>,
     leaves |-> <<LeafMarkup(0, 1, 0), LeafMarkup(1, DocLen - 1, 0),
                  LeafMarkup(DocLen - 1, DocLen, 0)>>]

\* Two pages that each hold one span of the same range; no span carries
\* the text before it or after it.
RepeatedLeaf ==
    [content_type |-> "html", pages |-> <<"", "">>,
     leaves |-> <<LeafMarkup(1, 2, 1), LeafMarkup(1, 2, 2)>>]

\* Two leaves whose text is shorter than their range says: the first holds
\* one character, the second none.
ShortLeaf ==
    [content_type |-> "html", pages |-> <<"">>,
     leaves |-> <<[LeafMarkup(0, DocLen - 1, 1) EXCEPT
                     !.kids = <<TextNode(Substring(DocText, 0, 1))>>],
                  [LeafMarkup(DocLen - 1, DocLen, 1) EXCEPT !.kids = <<>>]>>]

PlainText == [OnePage EXCEPT !.content_type = "text"]

Contents == {OnePage, TwoPages, NoPages, PlainText}

\* The structured contents a single pass is run over.
PassContents == {OnePage, TwoPages, NoPages, RepeatedLeaf, ShortLeaf}

\* Clause types as the analysis service sends them (underscored).
AITypes == {convertClauseTypeToBackendFormat(NoWaiver), Assignment}

Confidences == {87}

\* position is optional; a range may be empty, and one range ends before
\* it starts.
Positions ==
    {NoPosition, Position(DocLen - 1, DocLen - 2)}
    \cup {p \in {Position(s, e) : s \in 0..(DocLen - 1), e \in 0..DocLen} : p.start <= p.end}

\* One entry of analysisData.results[type] as page.tsx reshapes it
\* (src is the index of the object in document.clauses \o userAnnotations,
\* standing for the object's identity).
Clause(type, pos, conf, src) ==
    [type |-> type,
     selected_text |-> IF pos.has THEN Substring(DocText, pos.start, pos.end) ELSE <<>>,
     reason |-> <<"r">>, confidence |-> conf, position |-> pos,
     user |-> FALSE, src |-> src]

\* Object.entries(results).flatMap(...): the clauses of one type are contiguous.
Grouped(cs) ==
    \A i, j, l \in 1..Len(cs) :
        (i < j /\ j < l /\ cs[i].type = cs[l].type) => cs[j].type = cs[i].type

ClauseLists ==
    UNION {
      { cs \in [1..n -> [type : AITypes, position : Positions, confidence : Confidences]] :
          Grouped(cs) } : n \in 0..MaxClauses }

\* The clauses of the documents a session is run on: one clause at the head
\* of the text, one of another type over the rest of it.
SessionClauses ==
    { [type |-> convertClauseTypeToBackendFormat(NoWaiver),
       position |-> Position(0, 1), confidence |-> c] : c \in Confidences }
    \cup { [type |-> Assignment,
            position |-> Position(1, DocLen), confidence |-> c] : c \in Confidences }

SessionClauseLists ==
    UNION { { cs \in [1..n -> SessionClauses] : Grouped(cs) } : n \in 0..MaxClauses }

MakeClauses(cs) ==
    [i \in 1..Len(cs) |-> Clause(cs[i].type, cs[i].position, cs[i].confidence, i)]

\* ------------------------------------------------------- the overlay pass
\* DOMParser.parseFromString: a fresh tree, every leaf span a new node
\* (nodes are numbered to tell a node from the node that replaces it).
Parse(content) ==
    [pages |-> content.pages,
     leaves |-> [i \in 1..Len(content.leaves) |->
                   [id |-> i, start |-> content.leaves[i].start,
                    end |-> content.leaves[i].end, page |-> content.leaves[i].page,
                    kids |-> content.leaves[i].kids]]]

\* A serialisation that leaves the content of the hidden pages out: a leaf
\* of a page marked "none" is written without children.
SerializeVisible(pages, leaves) ==
    [pages |-> pages,
     leaves |-> [i \in 1..Len(leaves) |->
                   [start |-> leaves[i].start, end |-> leaves[i].end,
                    page |-> leaves[i].page,
                    kids |-> IF leaves[i].page \in 1..Len(pages)
                                /\ pages[leaves[i].page] = "none"
                             THEN <<>>
                             ELSE leaves[i].kids]]]

\* doc.body.innerHTML: the markup of the tree, node identities dropped.
Serialize(pages, leaves) ==
    [pages |-> pages,
     leaves |-> [i \in 1..Len(leaves) |->
                   [start |-> leaves[i].start, end |-> leaves[i].end,
                    page |-> leaves[i].page, kids |-> leaves[i].kids]]]

RECURSIVE ConcatKids(_, _)
ConcatKids(kids, i) ==
    IF i > Len(kids) THEN <<>> ELSE (kids[i].s \o kids[i].tip) \o ConcatKids(kids, i + 1)

\* element.textContent: the text of every descendant, the tooltip inside a
\* highlight span included.
TextContent(el) == ConcatKids(el.kids, 1)

PercentConfidence == <<"%", " ", "c", "o", "n", "f", "i", "d", "e", "n", "c", "e">>

\* Text of the tooltip div: the clause name, then `${Math.round(confidence)}% confidence`
\* (confidences are whole numbers here, which Math.round leaves alone); the
\* arrow div has no text.
TooltipText(clauseInfo, annotation) ==
    clauseInfo.name \o NumStr(annotation.confidence) \o PercentConfidence

\* The identifier built from the end offset instead of the start offset.
AnnotationIdFromEnd(type, position) ==
    type \o <<"-">> \o
    (IF position.has THEN NumStr(position.end)
     ELSE <<"u", "n", "d", "e", "f", "i", "n", "e", "d">>)

\* `${annotation.type}-${annotation.position.start}`
AnnotationId(type, position) ==
    type \o <<"-">> \o
    (IF position.has THEN NumStr(position.start)
     ELSE <<"u", "n", "d", "e", "f", "i", "n", "e", "d">>)

\* The highlight span of Case 1: attributes, text and the tooltip appended to it.
HighlightSpanFull(annotation, clauseInfo, highlightedText) ==
    [k |-> "hl", s |-> highlightedText, tip |-> TooltipText(clauseInfo, annotation),
     type |-> annotation.type,
     annId |-> AnnotationId(annotation.type, annotation.position),
     hasConf |-> TRUE, conf |-> NumStr(annotation.confidence),
     user |-> annotation.user, src |-> annotation.src]

\* The highlight span of Case 2 and Case 3: no data-confidence, no tooltip.
HighlightSpanPartial(annotation, highlightedText) ==
    [k |-> "hl", s |-> highlightedText, tip |-> <<>>,
     type |-> annotation.type,
     annId |-> AnnotationId(annotation.type, annotation.position),
     hasConf |-> FALSE, conf |-> <<>>,
     user |-> annotation.user, src |-> annotation.src]

\* A text node appended whether or not there is text.
OptTextAlways(s) == <<TextNode(s)>>

OptText(s) == IF s # <<>> THEN <<TextNode(s)>> ELSE <<>>

Diag(msg, annotation) == [msg |-> msg, src |-> annotation.src]

\* A replacement that leaves foundMatch as it was.
ReplaceChildUnflagged(T, newElement, element) ==
    [T EXCEPT
       !.leaves = [i \in 1..Len(T.leaves) |->
                     IF T.leaves[i].id = element.id THEN newElement ELSE T.leaves[i]],
       !.detached = T.detached \cup {element.id},
       !.nextId = T.nextId + 1]

\* element.parentNode?.replaceChild(newElement, element): element leaves the
\* tree and newElement takes its place; nothing happens when element is no
\* longer in the tree (its parentNode is null).
ReplaceChild(T, newElement, element) ==
    [T EXCEPT
       !.leaves = [i \in 1..Len(T.leaves) |->
                     IF T.leaves[i].id = element.id THEN newElement ELSE T.leaves[i]],
       !.detached = T.detached \cup {element.id},
       !.nextId = T.nextId + 1,
       !.foundMatch = TRUE]

\* Bookkeeping of a splice: the annotation, the case, the element's place
\* among the leaf spans, its range, and the children of the replacement.
Spliced(T, case, element, newElement, annotation) ==
    [T EXCEPT
       !.splices = Append(@,
          [src |-> annotation.src, case |-> case,
           at |-> CHOOSE i \in 0..Len(T.leaves) :
                     IF \E j \in 1..Len(T.leaves) : T.leaves[j].id = element.id
                     THEN i > 0 /\ T.leaves[i].id = element.id ELSE i = 0,
           elStart |-> element.start, elEnd |-> element.end,
           kids |-> newElement.kids])]

\* Case 1 without the check of the relative positions: substring swaps its
\* arguments, so a range that ends before it starts gets a highlight.
SpliceContainedUnguarded(T, element, annotation, clauseInfo) ==
    LET textContent == TextContent(element)
        relativeStart == annotation.position.start - element.start
        relativeEnd == annotation.position.end - element.start
        beforeText == Substring(textContent, 0, relativeStart)
        highlightedText == Substring(textContent, relativeStart, relativeEnd)
        afterText == SubstringFrom(textContent, relativeEnd)
        newElement ==
            [element EXCEPT
               !.id = T.nextId,
               !.kids = OptText(beforeText)
                        \o <<HighlightSpanFull(annotation, clauseInfo, highlightedText)>>
                        \o OptText(afterText)]
    IN  IF highlightedText = <<>>
        THEN [T EXCEPT !.diag = Append(@, Diag("No text to highlight", annotation))]
        ELSE ReplaceChild(
               Spliced([T EXCEPT !.diag = Append(@, Diag("Found text to highlight", annotation))],
                       "Contained", element, newElement, annotation),
               newElement, element)

\* Case 1: the annotation lies inside the element.
SpliceContained(T, element, annotation, clauseInfo) ==
    LET textContent == TextContent(element)
        relativeStart == annotation.position.start - element.start
        relativeEnd == annotation.position.end - element.start
        beforeText == Substring(textContent, 0, relativeStart)
        highlightedText == Substring(textContent, relativeStart, relativeEnd)
        afterText == SubstringFrom(textContent, relativeEnd)
        newElement ==
            [element EXCEPT
               !.id = T.nextId,
               !.kids = OptText(beforeText)
                        \o <<HighlightSpanFull(annotation, clauseInfo, highlightedText)>>
                        \o OptText(afterText)]
    IN  IF relativeEnd <= relativeStart \/ relativeStart >= Len(textContent)
        THEN [T EXCEPT !.diag = Append(@, Diag("Invalid relative positions", annotation))]
        ELSE IF highlightedText = <<>>
        THEN [T EXCEPT !.diag = Append(@, Diag("No text to highlight", annotation))]
        ELSE ReplaceChild(
               Spliced([T EXCEPT !.diag = Append(@, Diag("Found text to highlight", annotation))],
                       "Contained", element, newElement, annotation),
               newElement, element)

\* Case 2 without the check of the highlighted text.
SpliceLeftUnchecked(T, element, annotation) ==
    LET textContent == TextContent(element)
        start == annotation.position.start
        relativeStart == IF start - element.start > 0 THEN start - element.start ELSE 0
        beforeText == Substring(textContent, 0, relativeStart)
        highlightedText == SubstringFrom(textContent, relativeStart)
        newElement ==
            [element EXCEPT
               !.id = T.nextId,
               !.kids = OptText(beforeText)
                        \o <<HighlightSpanPartial(annotation, highlightedText)>>]
    IN  ReplaceChild(Spliced(T, "LeftOverlap", element, newElement, annotation),
                     newElement, element)

\* Case 2: the element holds the beginning of the annotation.
SpliceLeft(T, element, annotation) ==
    LET textContent == TextContent(element)
        start == annotation.position.start
        relativeStart == IF start - element.start > 0 THEN start - element.start ELSE 0
        beforeText == Substring(textContent, 0, relativeStart)
        highlightedText == SubstringFrom(textContent, relativeStart)
        newElement ==
            [element EXCEPT
               !.id = T.nextId,
               !.kids = OptText(beforeText)
                        \o <<HighlightSpanPartial(annotation, highlightedText)>>]
    IN  IF highlightedText # <<>>
        THEN ReplaceChild(Spliced(T, "LeftOverlap", element, newElement, annotation),
                          newElement, element)
        ELSE T

\* Case 3 with a replacement that is a new element without the attributes
\* of the one it replaces.
SpliceRightFresh(T, element, annotation) ==
    LET textContent == TextContent(element)
        relativeEnd == annotation.position.end - element.start
        highlightedText == Substring(textContent, 0, relativeEnd)
        afterText == SubstringFrom(textContent, relativeEnd)
        newElement ==
            [element EXCEPT
               !.id = T.nextId, !.start = 0, !.end = 0,
               !.kids = <<HighlightSpanPartial(annotation, highlightedText)>>
                        \o OptText(afterText)]
    IN  IF highlightedText # <<>>
        THEN ReplaceChild(Spliced(T, "RightOverlap", element, newElement, annotation),
                          newElement, element)
        ELSE T

\* Case 3: the element holds the end of the annotation.
SpliceRight(T, element, annotation) ==
    LET textContent == TextContent(element)
        relativeEnd == annotation.position.end - element.start
        highlightedText == Substring(textContent, 0, relativeEnd)
        afterText == SubstringFrom(textContent, relativeEnd)
        newElement ==
            [element EXCEPT
               !.id = T.nextId,
               !.kids = <<HighlightSpanPartial(annotation, highlightedText)>>
                        \o OptText(afterText)]
    IN  IF highlightedText # <<>>
        THEN ReplaceChild(Spliced(T, "RightOverlap", element, newElement, annotation),
                          newElement, element)
        ELSE T

\* One iteration of `for (const element of elements)`.
ProcessElement(T, element, annotation, clauseInfo) ==
    LET start == annotation.position.start
        end == annotation.position.end
        elStart == element.start
        elEnd == element.end
        T0 == [T EXCEPT
                 !.examined = Append(@, element.id),
                 !.stale = @ \cup (IF element.id \in T.detached THEN {element.id} ELSE {})]
    IN  IF (start >= elStart /\ start < elEnd) \/ (end > elStart /\ end <= elEnd)
           \/ (start <= elStart /\ end >= elEnd)
        THEN IF start >= elStart /\ end <= elEnd
             THEN SpliceContained(T0, element, annotation, clauseInfo)
             ELSE IF elStart <= start /\ elEnd <= end /\ elEnd > start
             THEN SpliceLeft(T0, element, annotation)
             ELSE IF elStart >= start /\ elStart < end /\ elEnd >= end
             THEN SpliceRight(T0, element, annotation)
             ELSE T0
        ELSE T0

RECURSIVE ForElements(_, _, _, _, _)
ForElements(T, elements, i, annotation, clauseInfo) ==
    IF i > Len(elements) THEN T
    ELSE ForElements(ProcessElement(T, elements[i], annotation, clauseInfo),
                     elements, i + 1, annotation, clauseInfo)

\* The query hoisted out of the forEach: the leaf spans of the tree as parsed,
\* whatever has been replaced since.
QuerySelectorAllOnce(leaves) == Parse(document.content).leaves

\* doc.querySelectorAll('span[data-start][data-end]'): a static list of the
\* leaf spans that are in the tree when the call is made.
QuerySelectorAll(leaves) == leaves

\* The callback of visibleAnnotations.forEach.
ProcessAnnotation(T, annotation) ==
    LET clauseInfo == CLAUSES(convertClauseTypeToFrontendFormat(annotation.type))
        T0 == [T EXCEPT !.processed = Append(@, annotation.src)]
    IN  IF ~annotation.position.has
        THEN [T0 EXCEPT !.diag = Append(@, Diag("Annotation missing position", annotation))]
        ELSE IF ~clauseInfo.found THEN T0
        ELSE LET elements == QuerySelectorAll(T0.leaves)
                 T1 == ForElements([T0 EXCEPT !.foundMatch = FALSE,
                                             !.diag = Append(@, Diag("Looking to highlight", annotation))],
                                   elements, 1, annotation, clauseInfo)
             IN  IF ~T1.foundMatch
                 THEN [T1 EXCEPT !.diag = Append(@, Diag("Could not find element", annotation))]
                 ELSE T1

\* (a.position?.start || 0)
SortKey(a) == IF a.position.has THEN a.position.start ELSE 0

RECURSIVE SortByStartUnstable(_)
\* A sort that places an element before the earlier elements of equal key.
SortByStartUnstable(arr) ==
    IF arr = <<>> THEN <<>>
    ELSE LET n == Len(arr)
             x == arr[n]
             sorted == SortByStartUnstable(SubSeq(arr, 1, n - 1))
             k == Cardinality({i \in 1..(n - 1) : SortKey(sorted[i]) < SortKey(x)})
         IN  SubSeq(sorted, 1, k) \o <<x>> \o SubSeq(sorted, k + 1, n - 1)

RECURSIVE SortByStart(_)
\* Array.prototype.sort with the comparator key(a) - key(b): stable, so an
\* element is placed after every earlier element whose key is not larger.
SortByStart(arr) ==
    IF arr = <<>> THEN <<>>
    ELSE LET n == Len(arr)
             x == arr[n]
             sorted == SortByStart(SubSeq(arr, 1, n - 1))
             k == Cardinality({i \in 1..(n - 1) : SortKey(sorted[i]) <= SortKey(x)})
         IN  SubSeq(sorted, 1, k) \o <<x>> \o SubSeq(sorted, k + 1, n - 1)

\* A filter that looks the type up as the analysis service spells it.
IsVisibleRaw(filters, a) == Includes(filters, a.type)

IsVisible(filters, a) == Includes(filters, convertClauseTypeToFrontendFormat(a.type))

\* visibleAnnotations: the clauses and the user annotations whose type passes
\* the filter, sorted by start.
VisibleAnnotations(clauses, users, filters) ==
    SortByStart(SelectSeq(clauses, LAMBDA a : IsVisible(filters, a))
                \o SelectSeq(users, LAMBDA a : IsVisible(filters, a)))

\* pages.forEach: only the page currentPage is displayed.
PageDisplay(pages, page) ==
    [i \in 1..Len(pages) |-> IF i # page THEN "none" ELSE "block"]

\* A pass that goes on from the tree the previous pass left.
StartTreeReused(content) ==
    [leaves |-> IF tree.leaves # <<>> THEN tree.leaves ELSE Parse(content).leaves,
     nextId |-> Len(content.leaves) + 1,
     foundMatch |-> FALSE, diag |-> <<>>, examined |-> <<>>, processed |-> <<>>,
     detached |-> {}, stale |-> {}, splices |-> <<>>]

\* The tree and the bookkeeping of a pass right after the parse.
StartTree(content) ==
    [leaves |-> Parse(content).leaves, nextId |-> Len(content.leaves) + 1,
     foundMatch |-> FALSE, diag |-> <<>>, examined |-> <<>>, processed |-> <<>>,
     detached |-> {}, stale |-> {}, splices |-> <<>>]

RECURSIVE ForEachAnnotation(_, _, _)
ForEachAnnotation(T, annotations, i) ==
    IF i > Len(annotations) THEN T
    ELSE ForEachAnnotation(ProcessAnnotation(T, annotations[i]), annotations, i + 1)

\* processContent as one computation: the markup it returns.
processContent(doc, users, filters, page) ==
    IF doc.content_type = "html"
    THEN LET T == ForEachAnnotation(StartTree(doc.content),
                                    VisibleAnnotations(doc.clauses, users, filters), 1)
         IN  Serialize(PageDisplay(doc.content.pages, page), T.leaves)
    ELSE Serialize(doc.content.pages, doc.content.leaves)

\* ------------------------------------------------------- initial state
vars ==
    <<document, userAnnotations, selectedAnnotation, activeFilters, selection,
      isMounted, currentPage, totalPages, pc, visibleAnnotations, annIdx, tree,
      displayed, effectDeps, lastRun, prevRun, nEvents,
      paramsId, fetches, nFetches, documentId, loading, error,
      notes, nextNoteId, comment, mode, isSubmitting, existingNoteId,
      noteRequests, nRequests, detailGen>>

noteVars ==
    <<notes, nextNoteId, comment, mode, isSubmitting, existingNoteId,
      noteRequests, nRequests, detailGen>>

routeVars == <<paramsId, fetches, nFetches, documentId, loading, error>>

pageVars == <<document, userAnnotations, selectedAnnotation>>

viewerVars == <<activeFilters, selection, isMounted, currentPage, totalPages>>

passVars == <<visibleAnnotations, annIdx, tree>>

NoRun == [ran |-> FALSE, doc |-> <<>>, users |-> <<>>, filters |-> {}, page |-> 0, out |-> <<>>]

ToSet(arr) == {arr[i] : i \in 1..Len(arr)}

\* What a pass reads: the document, the user annotations, the filter
\* membership and the page number.
RunOf(out) ==
    [ran |-> TRUE, doc |-> document, users |-> userAnnotations,
     filters |-> ToSet(activeFilters), page |-> currentPage, out |-> out]

\* The document state fetchDocument sets from a content and a clause list.
DocumentOf(c, cs) ==
    [content_type |-> c.content_type,
     content |-> [pages |-> c.pages, leaves |-> c.leaves],
     clauses |-> MakeClauses(cs)]

\* The documents a session starts from.
Documents == {DocumentOf(c, cs) : c \in Contents, cs \in SessionClauseLists}

\* The documents a single pass is run over.
PassDocuments == {DocumentOf(c, cs) : c \in PassContents, cs \in ClauseLists}

\* Before the first pass there is no tree.
NoTree ==
    [leaves |-> <<>>, nextId |-> 1, foundMatch |-> FALSE, diag |-> <<>>,
     examined |-> <<>>, processed |-> <<>>, detached |-> {}, stale |-> {}, splices |-> <<>>]

\* DocumentViewer is constructed once DocumentPage holds a document: the
\* useState initial values, the first render pending.
InitViewer ==
    /\ userAnnotations = <<>>
    /\ selectedAnnotation = <<>>
    /\ activeFilters = ClauseKeys
    /\ selection = <<>>
    /\ isMounted = FALSE
    /\ currentPage = 1
    /\ totalPages = 1
    /\ pc = "render"
    /\ visibleAnnotations = <<>>
    /\ annIdx = 1
    /\ tree = NoTree
    /\ displayed = Serialize(<<>>, <<>>)
    /\ effectDeps = [ran |-> FALSE, mounted |-> FALSE]
    /\ lastRun = NoRun
    /\ prevRun = NoRun
    /\ nEvents = 0

\* DocumentPage once the fetch of the document of the route has completed.
InitLoaded ==
    /\ paramsId = 1
    /\ fetches = {}
    /\ nFetches = 1
    /\ documentId = 1
    /\ loading = FALSE
    /\ error = FALSE

\* No detail view has been opened and the note service holds no note.
InitNoDetail ==
    /\ notes = <<>>
    /\ nextNoteId = 1
    /\ comment = <<>>
    /\ mode = "view"
    /\ isSubmitting = FALSE
    /\ existingNoteId = <<>>
    /\ noteRequests = {}
    /\ nRequests = 0
    /\ detailGen = 0

Init == document \in Documents /\ InitViewer /\ InitLoaded /\ InitNoDetail

\* The first render of a viewer over any of the documents of PassDocuments.
InitPass == document \in PassDocuments /\ InitViewer /\ InitLoaded /\ InitNoDetail

\* ------------------------------------------------------------------ render
\* A pass that keeps the annotation list of the first pass (a memo that
\* misses the filter and the user annotations among its dependencies).
StartPassMemoised ==
    /\ pc = "render"
    /\ document.content_type = "html"
    /\ tree' = StartTree(document.content)
    /\ visibleAnnotations' =
           IF lastRun.ran THEN visibleAnnotations
           ELSE VisibleAnnotations(document.clauses, userAnnotations, activeFilters)
    /\ annIdx' = 1
    /\ pc' = "forEach"
    /\ UNCHANGED <<noteVars, routeVars, pageVars, viewerVars, displayed, effectDeps, lastRun, prevRun, nEvents>>

\* processContent, html branch, up to the forEach: parse the content, filter
\* and sort the annotations.
StartPass ==
    /\ pc = "render"
    /\ document.content_type = "html"
    /\ tree' = StartTree(document.content)
    /\ visibleAnnotations' =
           VisibleAnnotations(document.clauses, userAnnotations, activeFilters)
    /\ annIdx' = 1
    /\ pc' = "forEach"
    /\ UNCHANGED <<noteVars, routeVars, pageVars, viewerVars, displayed, effectDeps, lastRun, prevRun, nEvents>>

\* One call of the forEach callback.
ForEachStep ==
    /\ pc = "forEach"
    /\ annIdx <= Len(visibleAnnotations)
    /\ tree' = ProcessAnnotation(tree, visibleAnnotations[annIdx])
    /\ annIdx' = annIdx + 1
    /\ UNCHANGED <<noteVars, routeVars, pageVars, viewerVars, pc, visibleAnnotations, displayed,
                   effectDeps, lastRun, prevRun, nEvents>>

\* After the forEach: toggle the pages, serialise, and React commits the markup.
FinishPass ==
    /\ pc = "forEach"
    /\ annIdx > Len(visibleAnnotations)
    /\ LET out == Serialize(PageDisplay(document.content.pages, currentPage), tree.leaves)
       IN  /\ displayed' = out
           /\ lastRun' = RunOf(out)
    /\ prevRun' = lastRun
    /\ pc' = "effects"
    /\ UNCHANGED <<noteVars, routeVars, pageVars, viewerVars, passVars, effectDeps, nEvents>>

\* A fallback that still runs the page step.
RenderFallbackPaged ==
    /\ pc = "render"
    /\ document.content_type # "html"
    /\ LET out == Serialize(PageDisplay(document.content.pages, currentPage),
                            document.content.leaves)
       IN  /\ displayed' = out
           /\ lastRun' = RunOf(out)
    /\ prevRun' = lastRun
    /\ pc' = "effects"
    /\ UNCHANGED <<noteVars, routeVars, pageVars, viewerVars, passVars, effectDeps, nEvents>>

\* processContent when the content is not html: the content is returned as it is.
RenderFallback ==
    /\ pc = "render"
    /\ document.content_type # "html"
    /\ LET out == Serialize(document.content.pages, document.content.leaves)
       IN  /\ displayed' = out
           /\ lastRun' = RunOf(out)
    /\ prevRun' = lastRun
    /\ pc' = "effects"
    /\ UNCHANGED <<noteVars, routeVars, pageVars, viewerVars, passVars, effectDeps, nEvents>>

\* The effects React runs after a commit, in declaration order: the page-count
\* effect (on the first commit and when document or isMounted changed), then,
\* on the first commit, the effect that sets isMounted. A changed state
\* schedules another render.
RunEffects ==
    /\ pc = "effects"
    /\ LET pagesDue == ~effectDeps.ran \/ effectDeps.mounted # isMounted
           countPages == pagesDue /\ document.content_type = "html" /\ isMounted
           newTotal == IF countPages THEN Len(document.content.pages) ELSE totalPages
           newPage == IF countPages THEN 1 ELSE currentPage
           newMounted == IF ~effectDeps.ran THEN TRUE ELSE isMounted
       IN  /\ totalPages' = newTotal
           /\ currentPage' = newPage
           /\ isMounted' = newMounted
           /\ pc' = IF newTotal # totalPages \/ newPage # currentPage \/ newMounted # isMounted
                    THEN "render" ELSE "idle"
    /\ effectDeps' = [ran |-> TRUE, mounted |-> isMounted]
    /\ UNCHANGED <<noteVars, routeVars, pageVars, activeFilters, selection, passVars, displayed,
                   lastRun, prevRun, nEvents>>

\* ------------------------------------------------------------------ events
\* An event handler runs between renders; the state it sets schedules a render.
Handling == pc = "idle" /\ nEvents < MaxEvents

\* prev.includes(t) ? prev.filter(x => x !== t) : [...prev, t]
ToggledFilters(prev, clauseType) ==
    IF Includes(prev, clauseType)
    THEN SelectSeq(prev, LAMBDA type : type # clauseType)
    ELSE Append(prev, clauseType)

\* The filter buttons the user clicks: the keys of the two clause types the
\* analysis returns and one key no annotation has.
ToggledKeys == {NoWaiver, Assignment, Severability}

\* A click on one of the filter buttons (one per key of the catalog).
toggleFilter(clauseType) ==
    /\ Handling
    /\ activeFilters' = ToggledFilters(activeFilters, clauseType)
    /\ pc' = "render"
    /\ nEvents' = nEvents + 1
    /\ UNCHANGED <<noteVars, routeVars, pageVars, selection, isMounted, currentPage, totalPages, passVars,
                   displayed, effectDeps, lastRun, prevRun>>

\* The Previous button: rendered when totalPages > 1, disabled on page 1.
goToPreviousPage ==
    /\ Handling
    /\ totalPages > 1 /\ currentPage # 1
    /\ currentPage > 1
    /\ currentPage' = currentPage - 1
    /\ pc' = "render"
    /\ nEvents' = nEvents + 1
    /\ UNCHANGED <<noteVars, routeVars, pageVars, activeFilters, selection, isMounted, totalPages, passVars,
                   displayed, effectDeps, lastRun, prevRun>>

\* The Next button: rendered when totalPages > 1, disabled on the last page.
goToNextPage ==
    /\ Handling
    /\ totalPages > 1 /\ currentPage # totalPages
    /\ currentPage < totalPages
    /\ currentPage' = currentPage + 1
    /\ pc' = "render"
    /\ nEvents' = nEvents + 1
    /\ UNCHANGED <<noteVars, routeVars, pageVars, activeFilters, selection, isMounted, totalPages, passVars,
                   displayed, effectDeps, lastRun, prevRun>>

\* A leaf of the displayed markup the user can reach: outside every page
\* container, or in the page that is displayed.
Shown(markup, leaf) == leaf.page = 0 \/ markup.pages[leaf.page] # "none"

\* The selections handleSelectionChange can compute for a range inside one
\* text node of the displayed markup: the node's parent is the leaf span
\* (data-start is read, start = data-start + startOffset) or a highlight span
\* (no data-start: start and end stay 0).
Selections(markup) ==
    LET Sel(leaf, kid, o, n) ==
            LET before == Len(Substring(TextContent(leaf), 0, o))
                inLeaf == kid.k = "text"
            IN  [text |-> Substring(kid.s, o, o + n),
                 start |-> IF inLeaf THEN leaf.start + before ELSE 0,
                 end |-> IF inLeaf THEN leaf.start + before + n ELSE 0]
        Choices ==
            UNION { { <<i, j, o, n>> :
                        j \in 1..Len(markup.leaves[i].kids),
                        o \in 0..(DocLen - 1), n \in 1..MaxSelLen } :
                    i \in {l \in 1..Len(markup.leaves) : Shown(markup, markup.leaves[l])} }
        Valid == {c \in Choices : c[3] + c[4] <= Len(markup.leaves[c[1]].kids[c[2]].s)}
    IN  { Sel(markup.leaves[c[1]], markup.leaves[c[1]].kids[c[2]], c[3], c[4]) : c \in Valid }

\* selectionchange with a non-empty selection inside the content.
handleSelectionChange(sel) ==
    /\ Handling
    /\ selection' = <<sel>>
    /\ pc' = "render"
    /\ nEvents' = nEvents + 1
    /\ UNCHANGED <<noteVars, routeVars, pageVars, activeFilters, isMounted, currentPage, totalPages, passVars,
                   displayed, effectDeps, lastRun, prevRun>>

\* selectionchange with an empty selection, or one outside the content.
handleSelectionCleared ==
    /\ Handling
    /\ selection # <<>>
    /\ selection' = <<>>
    /\ pc' = "render"
    /\ nEvents' = nEvents + 1
    /\ UNCHANGED <<noteVars, routeVars, pageVars, activeFilters, isMounted, currentPage, totalPages, passVars,
                   displayed, effectDeps, lastRun, prevRun>>

\* addUserAnnotation of DocumentPage: the new annotation object.
NewUserAnnotation(text, startPos, endPos, src) ==
    [type |-> ReviewComments, selected_text |-> text, reason |-> UserReason,
     confidence |-> UserConfidence, position |-> Position(startPos, endPos),
     user |-> TRUE, src |-> src]

\* handleAddAnnotation: the selection becomes a user annotation of
\* DocumentPage and is cleared.
handleAddAnnotation ==
    /\ Handling
    /\ selection # <<>>
    /\ Len(userAnnotations) < MaxUser
    /\ userAnnotations' =
           Append(userAnnotations,
                  NewUserAnnotation(selection[1].text, selection[1].start, selection[1].end,
                                    Len(document.clauses) + Len(userAnnotations) + 1))
    /\ selection' = <<>>
    /\ pc' = "render"
    /\ nEvents' = nEvents + 1
    /\ UNCHANGED <<noteVars, routeVars, document, selectedAnnotation, activeFilters, isMounted, currentPage,
                   totalPages, passVars, displayed, effectDeps, lastRun, prevRun>>

\* [...document.clauses, ...userAnnotations]
AllAnnotations(doc, users) == doc.clauses \o users

\* `${clauseType}-${clause.position?.start}` of the click handler.
ClickedId(clauseType, clause) ==
    clauseType \o <<"-">> \o
    (IF clause.position.has THEN NumStr(clause.position.start)
     ELSE <<"u", "n", "d", "e", "f", "i", "n", "e", "d">>)

\* A lookup that returns the last match instead of the first.
resolveClickLast(clauseType, annotationId, annotations) ==
    LET Matches(clause) ==
            /\ clause.type = clauseType
            /\ ClickedId(clauseType, clause) = annotationId
        hits == {i \in 1..Len(annotations) : Matches(annotations[i])}
    IN  IF hits = {} THEN <<>>
        ELSE <<annotations[CHOOSE i \in hits : \A j \in hits : i >= j]>>

\* Array.prototype.find of the click handler: the first annotation whose type
\* is the clicked type and whose `${clauseType}-${start}` is the clicked id.
resolveClick(clauseType, annotationId, annotations) ==
    LET Matches(clause) ==
            /\ clause.type = clauseType
            /\ ClickedId(clauseType, clause) = annotationId
        hits == {i \in 1..Len(annotations) : Matches(annotations[i])}
    IN  IF hits = {} THEN <<>>
        ELSE <<annotations[CHOOSE i \in hits : \A j \in hits : i <= j]>>

\* The highlight spans of a markup the user can click: (leaf, kid) indices.
ClickableSpans(markup) ==
    UNION { { <<i, j>> : j \in {n \in 1..Len(markup.leaves[i].kids) :
                                  markup.leaves[i].kids[n].k = "hl"} } :
            i \in {l \in 1..Len(markup.leaves) : Shown(markup, markup.leaves[l])} }

\* The note key built from the clauseType prop, the hyphenated type.
detailAnnotationIdFromProp(annotation) ==
    convertClauseTypeToFrontendFormat(annotation.type) \o <<"-">> \o
    (IF annotation.position.has THEN NumStr(annotation.position.start)
     ELSE <<"u", "n", "d", "e", "f", "i", "n", "e", "d">>)

\* AnnotationDetail: annotation.id || `${annotation.type}-${annotation.position?.start}`
\* (no annotation of this program has an id field).
detailAnnotationId(annotation) ==
    IF "id" \in DOMAIN annotation /\ annotation.id # <<>>
    THEN annotation.id
    ELSE annotation.type \o <<"-">> \o
         (IF annotation.position.has THEN NumStr(annotation.position.start)
          ELSE <<"u", "n", "d", "e", "f", "i", "n", "e", "d">>)

\* A request of the detail view to the note service, just sent.
NoteRequest(gen, kind, annotationId, noteId, text) ==
    [req |-> nRequests + 1, gen |-> gen, kind |-> kind, annotationId |-> annotationId,
     noteId |-> noteId, text |-> text, stage |-> "sent", note |-> <<>>]

\* What rendering DocumentPage with a selected annotation does to the detail
\* view. Opened, AnnotationDetail is constructed (the useState initial
\* values) and its effect calls fetchNote; kept open for another annotation,
\* the effect runs again when annotationId has changed and the state stays.
ShowDetail(annotation) ==
    IF selectedAnnotation = <<>>
    THEN /\ comment' = <<>>
         /\ mode' = "view"
         /\ isSubmitting' = FALSE
         /\ existingNoteId' = <<>>
         /\ detailGen' = detailGen + 1
         /\ noteRequests' = noteRequests \cup
                {NoteRequest(detailGen + 1, "fetch", detailAnnotationId(annotation), 0, <<>>)}
         /\ nRequests' = nRequests + 1
         /\ UNCHANGED <<notes, nextNoteId>>
    ELSE IF detailAnnotationId(annotation) # detailAnnotationId(selectedAnnotation[1])
    THEN /\ noteRequests' = noteRequests \cup
                {NoteRequest(detailGen, "fetch", detailAnnotationId(annotation), 0, <<>>)}
         /\ nRequests' = nRequests + 1
         /\ UNCHANGED <<notes, nextNoteId, comment, mode, isSubmitting, existingNoteId,
                        detailGen>>
    ELSE UNCHANGED noteVars

\* onClick of the content div with a clause-highlight target.
onClick(c) ==
    /\ Handling
    /\ LET target == displayed.leaves[c[1]].kids[c[2]]
           annotation == resolveClick(target.type, target.annId,
                                      AllAnnotations(document, userAnnotations))
       IN  /\ annotation # <<>>
           /\ selectedAnnotation' = annotation
           /\ ShowDetail(annotation[1])
    /\ pc' = "render"
    /\ nEvents' = nEvents + 1
    /\ UNCHANGED <<routeVars, document, userAnnotations, viewerVars, passVars, displayed,
                   effectDeps, lastRun, prevRun>>

Next ==
    \/ StartPass
    \/ ForEachStep
    \/ FinishPass
    \/ RenderFallback
    \/ RunEffects
    \/ \E key \in ToggledKeys : toggleFilter(key)
    \/ goToPreviousPage
    \/ goToNextPage
    \/ \E sel \in Selections(displayed) : handleSelectionChange(sel)
    \/ handleSelectionCleared
    \/ handleAddAnnotation
    \/ \E c \in ClickableSpans(displayed) : onClick(c)

Spec == Init /\ [][Next]_vars

\* The first pass of a freshly constructed viewer, no event handled.
NextPass ==
    \/ StartPass
    \/ ForEachStep
    \/ FinishPass

SpecPass == InitPass /\ [][NextPass]_vars

\* Clause types of any spelling: the strings of a letter, the underscore and
\* the hyphen, and the types the analysis service sends.
TypeStrings ==
    AITypes \cup UNION { [1..n -> {"a", "_", "-"}] : n \in 0..MaxTypeLen }

\* Documents of one clause at the head of the text, of any type.
TypeDocuments ==
    {DocumentOf(OnePage, <<[type |-> t, position |-> Position(0, 1), confidence |-> c]>>) :
        t \in TypeStrings, c \in Confidences}

\* The first render of a viewer over a document of TypeDocuments: the filter
\* of the pass converts the clause type.
InitTypes == document \in TypeDocuments /\ InitViewer /\ InitLoaded /\ InitNoDetail

SpecTypes == InitTypes /\ [][NextPass]_vars

\* ------------------------------------------------------ document fetches
DocIds == 1..MaxDocs

\* document is null.
NoDocument ==
    [content_type |-> "none", content |-> [pages |-> <<>>, leaves |-> <<>>],
     clauses |-> <<>>]

\* The analysis the service holds for a document id.
AnalysisOf(id) ==
    IF id = 1 THEN DocumentOf(OnePage, <<>>)
    ELSE IF id = 2 THEN DocumentOf(TwoPages, <<>>)
    ELSE DocumentOf(NoPages, <<>>)

\* The effect of DocumentPage (dependency params.id) calls fetchDocument:
\* setLoading(true), then the request goes out.
StartFetch(id) ==
    /\ fetches' = fetches \cup {[req |-> nFetches + 1, id |-> id]}
    /\ nFetches' = nFetches + 1
    /\ loading' = TRUE

\* DocumentPage is constructed for the route of document 1 and its effect
\* has started the first fetch.
InitFetch ==
    /\ document = NoDocument
    /\ InitViewer
    /\ InitNoDetail
    /\ paramsId = 1
    /\ fetches = {[req |-> 1, id |-> 1]}
    /\ nFetches = 1
    /\ documentId = 0
    /\ loading = TRUE
    /\ error = FALSE

\* The route changes to another document id while DocumentPage stays
\* mounted: the effect runs again and starts a fetch; nothing cancels the
\* fetches that are pending.
navigate(id) ==
    /\ paramsId # 0
    /\ id # paramsId
    /\ nFetches < MaxFetches
    /\ paramsId' = id
    /\ StartFetch(id)
    /\ UNCHANGED <<noteVars, pageVars, viewerVars, passVars, pc, displayed, effectDeps, lastRun,
                   prevRun, nEvents, documentId, error>>

\* fetchDocumentAnalysis resolves with a completed analysis: setDocument,
\* setLoading(false).
fetchCompleted(f) ==
    /\ paramsId # 0
    /\ f \in fetches
    /\ fetches' = fetches \ {f}
    /\ document' = AnalysisOf(f.id)
    /\ documentId' = f.id
    /\ loading' = FALSE
    /\ UNCHANGED <<noteVars, userAnnotations, selectedAnnotation, viewerVars, passVars, pc,
                   displayed, effectDeps, lastRun, prevRun, nEvents, paramsId, nFetches,
                   error>>

\* The analysis has failed or the request throws: setError, setLoading(false).
fetchFailed(f) ==
    /\ paramsId # 0
    /\ f \in fetches
    /\ fetches' = fetches \ {f}
    /\ error' = TRUE
    /\ loading' = FALSE
    /\ UNCHANGED <<noteVars, pageVars, viewerVars, passVars, pc, displayed, effectDeps, lastRun,
                   prevRun, nEvents, paramsId, nFetches, documentId>>

\* The analysis is still processing: router.push('/') leaves the page, and
\* the responses that arrive later find no component.
fetchProcessing(f) ==
    /\ paramsId # 0
    /\ f \in fetches
    /\ fetches' = fetches \ {f}
    /\ paramsId' = 0
    /\ UNCHANGED <<noteVars, pageVars, viewerVars, passVars, pc, displayed, effectDeps, lastRun,
                   prevRun, nEvents, nFetches, documentId, loading, error>>

NextFetch ==
    \/ \E id \in DocIds : navigate(id)
    \/ \E f \in fetches : fetchCompleted(f)
    \/ \E f \in fetches : fetchFailed(f)
    \/ \E f \in fetches : fetchProcessing(f)

SpecFetch == InitFetch /\ [][NextFetch]_vars

\* --------------------------------------------------------------- notes
\* The texts typed into the note field.
NoteTexts == {<<"b">>}

\* The document of a session with the detail view: a no_waiver clause in
\* the first leaf and an assignment clause over the two leaves after it.
NotesDocument ==
    DocumentOf(NoPages,
               <<[type |-> convertClauseTypeToBackendFormat(NoWaiver),
                  position |-> Position(0, 1), confidence |-> 87],
                 [type |-> Assignment,
                  position |-> Position(1, DocLen), confidence |-> 87]>>)

\* The stored notes of an annotation, by their places in the store.
NotesOf(annotationId) ==
    {n \in 1..Len(notes) : notes[n].annotation_id = annotationId}

\* `if (existingNoteId)`: null and 0 are falsy.
Truthy(noteId) == noteId # <<>> /\ noteId[1] # 0

\* The viewer is loaded, no detail view is open, and the note service
\* holds no note or one note of the first clause; its ids start at 0 or 1.
InitNotes ==
    /\ document = NotesDocument
    /\ InitViewer
    /\ InitLoaded
    /\ \E first \in 0..1, stored \in BOOLEAN :
          /\ notes = IF stored
                     THEN <<[id |-> first,
                             annotation_id |-> detailAnnotationId(NotesDocument.clauses[1]),
                             text |-> <<"a">>]>>
                     ELSE <<>>
          /\ nextNoteId = IF stored THEN first + 1 ELSE first
    /\ comment = <<>>
    /\ mode = "view"
    /\ isSubmitting = FALSE
    /\ existingNoteId = <<>>
    /\ noteRequests = {}
    /\ nRequests = 0
    /\ detailGen = 0

\* A handler of the detail view runs between renders, while it is open.
DetailIdle == pc = "idle" /\ selectedAnnotation # <<>>

\* The component that sent the request is still mounted.
Alive(r) == selectedAnnotation # <<>> /\ r.gen = detailGen

detailFrame ==
    UNCHANGED <<routeVars, pageVars, viewerVars, passVars, pc, displayed, effectDeps,
                lastRun, prevRun, nEvents>>

\* onClose: setSelectedAnnotation(null); AnnotationDetail is unmounted and
\* its state is gone, the requests it sent stay on their way.
onClose ==
    /\ DetailIdle
    /\ selectedAnnotation' = <<>>
    /\ comment' = <<>>
    /\ mode' = "view"
    /\ isSubmitting' = FALSE
    /\ existingNoteId' = <<>>
    /\ pc' = "render"
    /\ UNCHANGED <<routeVars, document, userAnnotations, viewerVars, passVars, displayed,
                   effectDeps, lastRun, prevRun, nEvents, notes, nextNoteId, noteRequests,
                   nRequests, detailGen>>

\* The Add / Edit button: setMode("edit").
setModeEdit ==
    /\ DetailIdle
    /\ mode = "view"
    /\ mode' = "edit"
    /\ detailFrame
    /\ UNCHANGED <<notes, nextNoteId, comment, isSubmitting, existingNoteId, noteRequests,
                   nRequests, detailGen>>

\* onChange of the textarea: setComment(e.target.value).
onChange(text) ==
    /\ DetailIdle
    /\ mode = "edit"
    /\ text # comment
    /\ comment' = text
    /\ detailFrame
    /\ UNCHANGED <<notes, nextNoteId, mode, isSubmitting, existingNoteId, noteRequests,
                   nRequests, detailGen>>

\* saveComment up to its await: setIsSubmitting(true), then updateNote when
\* existingNoteId is truthy and addNoteToAnnotation otherwise.
saveComment ==
    /\ DetailIdle
    /\ mode = "edit"
    /\ ~isSubmitting
    /\ nRequests < MaxRequests
    /\ isSubmitting' = TRUE
    /\ noteRequests' = noteRequests \cup
           {IF Truthy(existingNoteId)
            THEN NoteRequest(detailGen, "update",
                             detailAnnotationId(selectedAnnotation[1]),
                             existingNoteId[1], comment)
            ELSE NoteRequest(detailGen, "add",
                             detailAnnotationId(selectedAnnotation[1]), 0, comment)}
    /\ nRequests' = nRequests + 1
    /\ detailFrame
    /\ UNCHANGED <<notes, nextNoteId, comment, mode, existingNoteId, detailGen>>

\* The Cancel button: setMode("view"), then the saved text is fetched again
\* when existingNoteId is truthy, and the field is emptied otherwise.
cancelEdit ==
    /\ DetailIdle
    /\ mode = "edit"
    /\ ~isSubmitting
    /\ mode' = "view"
    /\ IF Truthy(existingNoteId)
       THEN /\ nRequests < MaxRequests
            /\ noteRequests' = noteRequests \cup
                   {NoteRequest(detailGen, "reset",
                                detailAnnotationId(selectedAnnotation[1]), 0, <<>>)}
            /\ nRequests' = nRequests + 1
            /\ UNCHANGED comment
       ELSE /\ comment' = <<>>
            /\ UNCHANGED <<noteRequests, nRequests>>
    /\ detailFrame
    /\ UNCHANGED <<notes, nextNoteId, isSubmitting, existingNoteId, detailGen>>

\* The note service answers a request: a GET reads a note of the annotation
\* (null when there is none), a POST stores a new note under a new id, a PUT
\* replaces the text of the note of the given id.
serveNoteRequest(r) ==
    /\ pc = "idle"
    /\ r \in noteRequests
    /\ r.stage = "sent"
    /\ IF r.kind = "add"
       THEN /\ notes' = Append(notes, [id |-> nextNoteId,
                                        annotation_id |-> r.annotationId,
                                        text |-> r.text])
            /\ nextNoteId' = nextNoteId + 1
            /\ noteRequests' = (noteRequests \ {r})
                   \cup {[r EXCEPT !.stage = "served", !.noteId = nextNoteId]}
       ELSE IF r.kind = "update"
       THEN /\ notes' = [n \in 1..Len(notes) |->
                            IF notes[n].id = r.noteId
                            THEN [notes[n] EXCEPT !.text = r.text] ELSE notes[n]]
            /\ noteRequests' = (noteRequests \ {r}) \cup {[r EXCEPT !.stage = "served"]}
            /\ UNCHANGED nextNoteId
       ELSE /\ \E found \in (IF NotesOf(r.annotationId) = {} THEN {<<>>}
                              ELSE {<<notes[n]>> : n \in NotesOf(r.annotationId)}) :
                  noteRequests' = (noteRequests \ {r})
                      \cup {[r EXCEPT !.stage = "served", !.note = found]}
            /\ UNCHANGED <<notes, nextNoteId>>
    /\ detailFrame
    /\ UNCHANGED <<comment, mode, isSubmitting, existingNoteId, nRequests, detailGen>>

\* getNoteForAnnotation of fetchNote resolves: with a note, setComment and
\* setExistingNoteId.
fetchNoteResolved(r) ==
    /\ pc = "idle"
    /\ r \in noteRequests
    /\ r.stage = "served" /\ r.kind = "fetch"
    /\ noteRequests' = noteRequests \ {r}
    /\ IF Alive(r) /\ r.note # <<>>
       THEN /\ comment' = r.note[1].text
            /\ existingNoteId' = <<r.note[1].id>>
       ELSE UNCHANGED <<comment, existingNoteId>>
    /\ detailFrame
    /\ UNCHANGED <<notes, nextNoteId, mode, isSubmitting, nRequests, detailGen>>

\* getNoteForAnnotation of the Cancel button resolves: with a note,
\* setComment.
cancelResolved(r) ==
    /\ pc = "idle"
    /\ r \in noteRequests
    /\ r.stage = "served" /\ r.kind = "reset"
    /\ noteRequests' = noteRequests \ {r}
    /\ comment' = IF Alive(r) /\ r.note # <<>> THEN r.note[1].text ELSE comment
    /\ detailFrame
    /\ UNCHANGED <<notes, nextNoteId, mode, isSubmitting, existingNoteId, nRequests,
                   detailGen>>

\* saveComment after its await: setExistingNoteId(noteId) for a new note,
\* setMode("view"), and setIsSubmitting(false) in the finally block.
saveCommentResolved(r) ==
    /\ pc = "idle"
    /\ r \in noteRequests
    /\ r.stage = "served" /\ r.kind \in {"add", "update"}
    /\ noteRequests' = noteRequests \ {r}
    /\ IF Alive(r)
       THEN /\ existingNoteId' = IF r.kind = "add" THEN <<r.noteId>> ELSE existingNoteId
            /\ mode' = "view"
            /\ isSubmitting' = FALSE
       ELSE UNCHANGED <<existingNoteId, mode, isSubmitting>>
    /\ detailFrame
    /\ UNCHANGED <<notes, nextNoteId, comment, nRequests, detailGen>>

\* A request throws before the service has answered it: the catch blocks
\* report it, and the finally block of saveComment ends the submission.
noteRequestFailed(r) ==
    /\ pc = "idle"
    /\ r \in noteRequests
    /\ r.stage = "sent"
    /\ noteRequests' = noteRequests \ {r}
    /\ isSubmitting' = IF Alive(r) /\ r.kind \in {"add", "update"} THEN FALSE
                       ELSE isSubmitting
    /\ detailFrame
    /\ UNCHANGED <<notes, nextNoteId, comment, mode, existingNoteId, nRequests, detailGen>>

NextNotes ==
    \/ StartPass
    \/ ForEachStep
    \/ FinishPass
    \/ RunEffects
    \/ \E c \in ClickableSpans(displayed) : onClick(c)
    \/ onClose
    \/ setModeEdit
    \/ \E text \in NoteTexts : onChange(text)
    \/ saveComment
    \/ cancelEdit
    \/ \E r \in noteRequests : serveNoteRequest(r)
    \/ \E r \in noteRequests : fetchNoteResolved(r)
    \/ \E r \in noteRequests : cancelResolved(r)
    \/ \E r \in noteRequests : saveCommentResolved(r)
    \/ \E r \in noteRequests : noteRequestFailed(r)

SpecNotes == InitNotes /\ [][NextNotes]_vars

\* ================================================================== claims
\* The markup on display is the output of a completed pass over the current
\* document, annotations, filter and page.
PassDone == pc \in {"effects", "idle"}

Html == document.content_type = "html"

\* The highlight spans of a markup, each with the index of its leaf.
HighlightSpans(markup) ==
    UNION { { [leaf |-> i, span |-> markup.leaves[i].kids[j]] :
                j \in {n \in 1..Len(markup.leaves[i].kids) :
                         markup.leaves[i].kids[n].k = "hl"} } :
            i \in 1..Len(markup.leaves) }

\* Every leaf of the document holds exactly the characters of its range.
Faithful ==
    \A i \in 1..Len(document.content.leaves) :
        LET leaf == document.content.leaves[i]
        IN  Len(leaf.kids) = 1 /\ leaf.kids[1].k = "text"
            /\ leaf.kids[1].s = Substring(DocText, leaf.start, leaf.end)

\* The annotations the pass over the current state works on.
ActiveNow ==
    LET v == VisibleAnnotations(document.clauses, userAnnotations, activeFilters)
    IN  {v[i] : i \in 1..Len(v)}

\* A position with start < end and a type the catalog knows.
WellFormed(a) ==
    /\ a.position.has
    /\ a.position.start < a.position.end
    /\ CLAUSES(convertClauseTypeToFrontendFormat(a.type)).found

Overlap(a, b) ==
    /\ a.position.start < b.position.end
    /\ b.position.start < a.position.end

\* The characters of the original text in [start, end).
RangeChars(a) ==
    {DocText[i + 1] : i \in {n \in a.position.start..(a.position.end - 1) : n < DocLen}}

\* The characters highlighted for the annotation in a markup.
CoveredChars(markup, a) ==
    UNION { {h.span.s[n] : n \in 1..Len(h.span.s)} :
            h \in {x \in HighlightSpans(markup) : x.span.src = a.src} }

FullyRendered(markup, a) == RangeChars(a) \subseteq CoveredChars(markup, a)

\* C1 (as claimed): after a pass, any two active well-formed annotations whose
\* ranges overlap are both fully rendered: each one's highlight spans cover
\* its whole range.
C1_NonCorruptionUnderOverlap ==
    (PassDone /\ Html /\ Faithful) =>
        \A a, b \in ActiveNow :
            (a.src # b.src /\ WellFormed(a) /\ WellFormed(b) /\ Overlap(a, b))
                => (FullyRendered(displayed, a) /\ FullyRendered(displayed, b))

\* The annotation's range meets some leaf of the document.
IntersectsLeaf(a) ==
    \E i \in 1..Len(document.content.leaves) :
        /\ a.position.start < document.content.leaves[i].end
        /\ document.content.leaves[i].start < a.position.end

HasSpan(markup, a) ==
    \E h \in HighlightSpans(markup) :
        /\ h.span.type = a.type
        /\ h.span.annId = AnnotationId(a.type, a.position)

\* C2 (as claimed): when the active annotations are well formed, pairwise
\* disjoint and each meets a leaf, the output has for every one of them a
\* highlight span carrying its identifier.
C2_EveryAnnotationRendered ==
    (/\ PassDone /\ Html /\ Faithful
     /\ \A a \in ActiveNow : WellFormed(a) /\ IntersectsLeaf(a)
     /\ \A a, b \in ActiveNow : a.src # b.src => ~Overlap(a, b))
        => \A a \in ActiveNow : HasSpan(displayed, a)

\* The annotation whose forEach callback has just returned.
JustProcessed == visibleAnnotations[annIdx - 1]

AfterCallback == pc = "forEach" /\ annIdx > 1

OriginalText(leaf) == Substring(DocText, leaf.start, leaf.end)

Contained(a, leaf) ==
    /\ leaf.start <= a.position.start
    /\ a.position.end <= leaf.end

RECURSIVE ConcatOwnText(_, _)
\* pre-text + highlighted text + post-text of a leaf: the text the splice put
\* into the nodes, tooltips left out.
ConcatOwnText(kids, i) ==
    IF i > Len(kids) THEN <<>> ELSE kids[i].s \o ConcatOwnText(kids, i + 1)

\* The leaf is a prefix text at most, one highlight span of the annotation, a
\* suffix text at most.
OneSpanWrapped(leaf, a) ==
    LET hl == {n \in 1..Len(leaf.kids) : leaf.kids[n].k = "hl"}
    IN  /\ Cardinality(hl) = 1
        /\ \A n \in hl :
              /\ leaf.kids[n].src = a.src
              /\ leaf.kids[n].s = Substring(DocText, a.position.start, a.position.end)
              /\ n <= 2 /\ Len(leaf.kids) <= n + 1

\* C3 (as claimed): after the splice of an annotation Contained in a leaf,
\* pre-text + highlighted text + post-text equals the leaf's original text, and
\* the leaf holds exactly one highlight span, whose text is
\* original[start-elStart : end-elStart].
C3_OffsetFidelity ==
    (AfterCallback /\ Faithful /\ WellFormed(JustProcessed)) =>
        \A i \in 1..Len(tree.leaves) :
            Contained(JustProcessed, tree.leaves[i]) =>
                /\ ConcatOwnText(tree.leaves[i].kids, 1) = OriginalText(tree.leaves[i])
                /\ OneSpanWrapped(tree.leaves[i], JustProcessed)

\* The text highlighted for the annotation in one leaf.
HighlightedIn(leaf, a) ==
    LET hl == {n \in 1..Len(leaf.kids) :
                 leaf.kids[n].k = "hl" /\ leaf.kids[n].src = a.src}
    IN  IF hl = {} THEN <<>> ELSE leaf.kids[CHOOSE n \in hl : TRUE].s

LeftOverlap(a, leaf) ==
    /\ leaf.start <= a.position.start
    /\ a.position.start < leaf.end
    /\ leaf.end <= a.position.end
    /\ ~Contained(a, leaf)

RightOverlap(a, leaf) ==
    /\ a.position.start <= leaf.start
    /\ leaf.start < a.position.end
    /\ a.position.end <= leaf.end
    /\ ~Contained(a, leaf)

\* C4 (as claimed): when an annotation spans exactly two adjacent leaves, the
\* highlighted text of the first followed by that of the second is the text
\* the annotation covers, original[start:end].
C4_SplitCoverage ==
    (AfterCallback /\ Faithful /\ WellFormed(JustProcessed)) =>
        \A i \in 1..(Len(tree.leaves) - 1) :
            (/\ LeftOverlap(JustProcessed, tree.leaves[i])
             /\ RightOverlap(JustProcessed, tree.leaves[i + 1])
             /\ tree.leaves[i].end = tree.leaves[i + 1].start)
                => HighlightedIn(tree.leaves[i], JustProcessed)
                   \o HighlightedIn(tree.leaves[i + 1], JustProcessed)
                   = Substring(DocText, JustProcessed.position.start,
                               JustProcessed.position.end)

\* The annotation object that produced a span.
Producer(span) == AllAnnotations(document, userAnnotations)[span.src]

Clicked(span) ==
    resolveClick(span.type, span.annId, AllAnnotations(document, userAnnotations))

\* C5 (as claimed): for every highlight span of the output, the click lookup
\* returns exactly the annotation object that produced the span, also when two
\* annotations of one type share a start offset.
C5_IdentifierSymmetry ==
    (PassDone /\ Html) =>
        \A h \in HighlightSpans(displayed) : Clicked(h.span) = <<Producer(h.span)>>

SameTypeAndStart(a, b) ==
    /\ a.type = b.type
    /\ a.position.has /\ b.position.has
    /\ a.position.start = b.position.start

\* C5 (amended): for every highlight span of the output, the click lookup
\* returns the first annotation, AI-detected before user-authored, that has
\* the type and the start offset of the span's producer; it is the producer
\* itself when no earlier annotation shares its type and start offset.
C5_IdentifierSymmetryUpToCollision ==
    (PassDone /\ Html) =>
        \A h \in HighlightSpans(displayed) :
            LET all == AllAnnotations(document, userAnnotations)
                same == {i \in 1..Len(all) : SameTypeAndStart(all[i], Producer(h.span))}
            IN  /\ Clicked(h.span) # <<>>
                /\ Clicked(h.span)[1].src \in same
                /\ \A i \in same : Clicked(h.span)[1].src <= i
                /\ (same = {h.span.src}) => Clicked(h.span) = <<Producer(h.span)>>

\* A span whose producer shares type and start with an earlier annotation, and
\* a span whose producer shares them with no other annotation.
C5_Witness ==
    /\ PassDone /\ Html
    /\ \E h \in HighlightSpans(displayed) :
          /\ Clicked(h.span) # <<>>
          /\ Clicked(h.span)[1].src < h.span.src
    /\ \E h \in HighlightSpans(displayed) : Clicked(h.span) = <<Producer(h.span)>>

\* The key of the filter button that governs a span.
KeyOf(span) == convertClauseTypeToFrontendFormat(span.type)

\* C6 (as claimed): toggling an enabled type T off yields the highlight spans
\* of the current output minus those of type T, no other span appearing,
\* disappearing or changing, and toggling T on again yields the current output.
C6_FilterMonotonicity ==
    (PassDone /\ Html) =>
        \A T \in ToSet(activeFilters) :
            LET off == ToggledFilters(activeFilters, T)
                on == ToggledFilters(off, T)
            IN  /\ HighlightSpans(processContent(document, userAnnotations, off, currentPage))
                   = {h \in HighlightSpans(displayed) : KeyOf(h.span) # T}
                /\ processContent(document, userAnnotations, on, currentPage) = displayed

SameInputs(r1, r2) ==
    /\ r1.ran /\ r2.ran
    /\ r1.doc = r2.doc
    /\ r1.users = r2.users
    /\ r1.filters = r2.filters
    /\ r1.page = r2.page

\* C7: two passes over the same document, the same annotation lists, the same
\* filter set and the same page number return identical markup.
C7_Idempotence == SameInputs(prevRun, lastRun) => lastRun.out = prevRun.out

\* Two consecutive passes over an html document had the same inputs and
\* returned a highlight.
C7_Witness ==
    /\ pc = "idle"
    /\ SameInputs(prevRun, lastRun)
    /\ HighlightSpans(lastRun.out) # {}
    /\ \E r \in {prevRun, lastRun} : r.doc.content_type = "html"

\* C8: whatever toggles, page changes and added annotations came before, the
\* markup on display is what one pass over the original content returns for
\* the current filter, page and annotation lists.
C8_HistoryIndependence ==
    PassDone =>
        displayed = processContent(document, userAnnotations, activeFilters, currentPage)

\* After two events, one of them a toggle that left the filter array in an
\* order other than the catalog's, a pass has put a highlight on display.
C8_Witness ==
    /\ pc = "idle"
    /\ nEvents = MaxEvents
    /\ prevRun.ran
    /\ ToSet(activeFilters) = ToSet(ClauseKeys) /\ activeFilters # ClauseKeys
    /\ HighlightSpans(displayed) # {}

\* The annotation object with a given identity.
AnnotationOf(src) == AllAnnotations(document, userAnnotations)[src]

\* The identities of the annotations whose type passes the filter.
ActiveSrcs ==
    {i \in 1..Len(AllAnnotations(document, userAnnotations)) :
        IsVisible(activeFilters, AnnotationOf(i))}

InPass == pc = "forEach" \/ PassDone

\* C9: within a pass the forEach callback runs at most once for an active
\* annotation and for no other, in non-decreasing order of position.start,
\* annotations of equal start in their order in (AI-detected, then
\* user-authored); when the pass ends it has run for every active annotation.
C9_ProcessingOrder ==
    (InPass /\ Html) =>
        LET done == tree.processed
        IN  /\ \A i \in 1..Len(done) : done[i] \in ActiveSrcs
            /\ \A i, j \in 1..Len(done) : i < j => done[i] # done[j]
            /\ \A i, j \in 1..Len(done) :
                  (/\ i < j
                   /\ AnnotationOf(done[i]).position.has
                   /\ AnnotationOf(done[j]).position.has)
                      => \/ AnnotationOf(done[i]).position.start
                              < AnnotationOf(done[j]).position.start
                         \/ /\ AnnotationOf(done[i]).position.start
                                 = AnnotationOf(done[j]).position.start
                            /\ done[i] < done[j]
            /\ PassDone => ToSet(done) = ActiveSrcs

\* A pass has ended that processed an annotation with a smaller start after
\* it arrived later than one with a larger start.
C9_Witness ==
    /\ PassDone /\ Html
    /\ \E i, j \in 1..Len(tree.processed) :
          /\ i < j
          /\ tree.processed[i] > tree.processed[j]
          /\ AnnotationOf(tree.processed[i]).position.has
          /\ AnnotationOf(tree.processed[j]).position.has

\* C10: the leaves an annotation is resolved against are those of the tree as
\* the earlier annotations left it: no node that a splice has replaced is
\* examined again, and every node examined after a splice of a leaf is the
\* node that replaced it.
C10_CurrentTreeResolution ==
    (InPass /\ Html) =>
        /\ tree.stale = {}
        /\ \A i \in 1..Len(tree.leaves) : tree.leaves[i].id \notin tree.detached

\* A later annotation examined a node that an earlier splice put into the tree.
C10_Witness ==
    /\ InPass /\ Html
    /\ tree.detached # {}
    /\ \E i \in 1..Len(tree.examined) :
          tree.examined[i] > Len(document.content.leaves)

\* ---------------------------------------------------------------- C11..C20
\* A bad annotation: no position, a range with end <= start, or a range that
\* meets no leaf of the document.
Bad(a) ==
    \/ ~a.position.has
    \/ a.position.end <= a.position.start
    \/ ~IntersectsLeaf(a)

\* The document with the clause of one identity taken out of the list.
WithoutClause(doc, src) ==
    [doc EXCEPT !.clauses = SelectSeq(@, LAMBDA c : c.src # src)]

\* C11: a pass over a list with a bad annotation (no position, end <= start,
\* or a range that meets no leaf) ends, and its output is the output of the
\* pass over the list without that annotation.
C11_FailureLocality ==
    (PassDone /\ Html) =>
        \A i \in 1..Len(document.clauses) :
            Bad(document.clauses[i]) =>
                processContent(WithoutClause(document, i), userAnnotations,
                               activeFilters, currentPage) = displayed

\* A pass has ended that went through an active bad annotation and put the
\* highlight of another annotation into the output.
C11_Witness ==
    /\ PassDone /\ Html
    /\ \E i \in ActiveSrcs :
          /\ Bad(AnnotationOf(i))
          /\ \E n \in 1..Len(tree.processed) : tree.processed[n] = i
          /\ \E h \in HighlightSpans(displayed) : h.span.src # i

\* The console messages that report an annotation or a leaf being given up.
Diagnostics ==
    {"Annotation missing position", "Invalid relative positions",
     "No text to highlight", "Could not find element"}

\* The diagnostics a pass has emitted for one annotation.
DiagnosticsOf(T, src) ==
    {n \in 1..Len(T.diag) : T.diag[n].src = src /\ T.diag[n].msg \in Diagnostics}

Degenerate(a) == a.position.has /\ a.position.end <= a.position.start

\* C12 (as claimed): an active annotation with position.end <= position.start
\* gets no highlight span and exactly one diagnostic, and the pass ends,
\* whatever the leaf layout.
C12_DegenerateRange ==
    (PassDone /\ Html) =>
        \A i \in ActiveSrcs :
            Degenerate(AnnotationOf(i)) =>
                /\ \A h \in HighlightSpans(displayed) : h.span.src # i
                /\ Cardinality(DiagnosticsOf(tree, i)) = 1

\* The splices a pass has made for one annotation.
SplicesOf(T, src) == {n \in 1..Len(T.splices) : T.splices[n].src = src}

NoMatchReported(T, src) ==
    \E n \in 1..Len(T.diag) :
        T.diag[n].src = src /\ T.diag[n].msg = "Could not find element"

\* C13: for an active annotation with start < end the pass has gone through,
\* 'could not find element' is logged if and only if no leaf was spliced for
\* it; the pass goes on, so that at its end every active annotation has been
\* gone through.
C13_NoMatchDiagnostic ==
    (InPass /\ Html) =>
        /\ \A n \in 1..Len(tree.processed) :
              WellFormed(AnnotationOf(tree.processed[n])) =>
                  (NoMatchReported(tree, tree.processed[n])
                     <=> SplicesOf(tree, tree.processed[n]) = {})
        /\ PassDone => ToSet(tree.processed) = ActiveSrcs

\* A pass has ended in which a well-formed annotation found no leaf and the
\* annotation processed after it was spliced.
C13_Witness ==
    /\ PassDone /\ Html
    /\ \E n \in 1..(Len(tree.processed) - 1) :
          /\ WellFormed(AnnotationOf(tree.processed[n]))
          /\ NoMatchReported(tree, tree.processed[n])
          /\ WellFormed(AnnotationOf(tree.processed[n + 1]))
          /\ SplicesOf(tree, tree.processed[n + 1]) # {}
          /\ ~NoMatchReported(tree, tree.processed[n + 1])

\* The leaf's range [elStart, elEnd) meets the annotation's [start, end).
Intersects(a, leaf) ==
    /\ a.position.start < leaf.end
    /\ leaf.start < a.position.end

\* C14 (as claimed): when the callback of an annotation with start < end
\* returns, every leaf whose range meets the annotation's has been spliced
\* for it once, as Contained, LeftOverlap or RightOverlap, the leaves in the
\* middle of an annotation over three or more leaves included.
C14_ResolverCompleteness ==
    (AfterCallback /\ Html /\ Faithful /\ WellFormed(JustProcessed)) =>
        \A i \in 1..Len(tree.leaves) :
            Intersects(JustProcessed, tree.leaves[i]) =>
                Cardinality({n \in SplicesOf(tree, JustProcessed.src) :
                               tree.splices[n].at = i}) = 1

\* C15 (as claimed): for each annotation the leaves are spliced in document
\* order, and after a splice as Contained no further leaf is spliced for the
\* annotation: an annotation Contained in a leaf causes exactly one splice.
C15_ContainedShortCircuit ==
    (InPass /\ Html) =>
        \A n, m \in 1..Len(tree.splices) :
            (n < m /\ tree.splices[n].src = tree.splices[m].src) =>
                /\ tree.splices[n].at < tree.splices[m].at
                /\ tree.splices[n].case # "Contained"

\* The places of the highlight spans among the children of a replacement.
SpanPlaces(kids) == {n \in 1..Len(kids) : kids[n].k = "hl"}

\* C16: the children of every replacement element are a text node at most,
\* one highlight span, a text node at most, in this order; a text node is
\* there only with text in it; a LeftOverlap replacement ends with the span
\* and a RightOverlap replacement begins with it.
C16_SpliceShape ==
    (InPass /\ Html) =>
        \A n \in 1..Len(tree.splices) :
            LET sp == tree.splices[n]
            IN  /\ Cardinality(SpanPlaces(sp.kids)) = 1
                /\ \A h \in SpanPlaces(sp.kids) :
                      /\ h <= 2 /\ Len(sp.kids) <= h + 1
                      /\ sp.case = "LeftOverlap" => h = Len(sp.kids)
                      /\ sp.case = "RightOverlap" => h = 1
                /\ \A k \in 1..Len(sp.kids) :
                      sp.kids[k].k = "text" => sp.kids[k].s # <<>>

\* A pass has made a splice of each of the three cases, one replacement with
\* a text node before the span and one with a text node after it.
C16_Witness ==
    /\ PassDone /\ Html
    /\ \A c \in {"Contained", "LeftOverlap", "RightOverlap"} :
          \E n \in 1..Len(tree.splices) : tree.splices[n].case = c
    /\ \E n \in 1..Len(tree.splices) :
          Len(tree.splices[n].kids) = 2 /\ tree.splices[n].kids[1].k = "text"
    /\ \E n \in 1..Len(tree.splices) :
          Len(tree.splices[n].kids) = 2 /\ tree.splices[n].kids[2].k = "text"

\* C17 (as claimed): every highlight span a pass emits, in each of the three
\* cases, carries the annotation's type and the identifier type-start, and
\* carries a confidence value if and only if the annotation is AI-detected.
C17_SpanMetadata ==
    (InPass /\ Html) =>
        \A n \in 1..Len(tree.splices) :
            \A h \in SpanPlaces(tree.splices[n].kids) :
                LET span == tree.splices[n].kids[h]
                    a == AnnotationOf(tree.splices[n].src)
                IN  /\ span.type = a.type
                    /\ span.annId = a.type \o <<"-">> \o NumStr(a.position.start)
                    /\ span.hasConf <=> ~a.user
                    /\ span.hasConf => span.conf = NumStr(a.confidence)

\* The page numbers a pass can be run with for the current document.
PageNumbers == 0..(Len(document.content.pages) + 1)

\* C18: the output of a pass marks the page container at currentPage as
\* visible and every other as not visible, and for any other page number the
\* pass over the same document, annotations and filter returns the same
\* leaves, highlight spans and text of hidden pages included, with only the
\* marks changed.
C18_PageVisibility ==
    /\ (PassDone /\ Html) =>
          /\ Len(displayed.pages) = Len(document.content.pages)
          /\ \A i \in 1..Len(displayed.pages) :
                displayed.pages[i] = (IF i = currentPage THEN "block" ELSE "none")
          /\ \A p \in PageNumbers :
                LET out == processContent(document, userAnnotations, activeFilters, p)
                IN  /\ out.leaves = displayed.leaves
                    /\ \A i \in 1..Len(out.pages) :
                          out.pages[i] = (IF i = p THEN "block" ELSE "none")
    /\ (/\ prevRun.ran /\ lastRun.ran /\ prevRun.doc = lastRun.doc
        /\ prevRun.users = lastRun.users /\ prevRun.filters = lastRun.filters)
          => prevRun.out.leaves = lastRun.out.leaves

\* Two consecutive passes differed in the page number only, over a document
\* with a highlight on the page that the last pass hid.
C18_Witness ==
    /\ pc = "idle" /\ Html
    /\ prevRun.ran /\ lastRun.ran
    /\ prevRun.doc = lastRun.doc /\ prevRun.users = lastRun.users
    /\ prevRun.filters = lastRun.filters
    /\ prevRun.page # lastRun.page
    /\ \E h \in HighlightSpans(displayed) :
          /\ displayed.leaves[h.leaf].page \in 1..Len(displayed.pages)
          /\ displayed.pages[displayed.leaves[h.leaf].page] = "none"

\* Clicked types and identifiers: those of spans any annotation could have
\* produced, and some that no annotation has.
ClickTypes == AITypes \cup {ReviewComments, NoWaiver}

ClickIds ==
    {AnnotationId(t, pos) : t \in ClickTypes,
                            pos \in {NoPosition} \cup {Position(n, n) : n \in 0..DocLen}}

\* The places in (AI-detected, then user-authored) of the annotations of the
\* clicked type whose identifier type-start is the clicked identifier.
MatchesOf(clauseType, annotationId) ==
    {i \in 1..Len(AllAnnotations(document, userAnnotations)) :
        /\ AnnotationOf(i).type = clauseType
        /\ AnnotationId(AnnotationOf(i).type, AnnotationOf(i).position) = annotationId}

FirstMatch(clauseType, annotationId) ==
    IF MatchesOf(clauseType, annotationId) = {} THEN <<>>
    ELSE <<AnnotationOf(CHOOSE i \in MatchesOf(clauseType, annotationId) :
                          \A j \in MatchesOf(clauseType, annotationId) : i <= j)>>

\* Between two renders, when a click can be handled, the lookup finds nothing
\* exactly when no annotation matches, and else the first match, whatever the
\* filter.
LookupIsFirstMatch ==
    pc = "idle" =>
        \A t \in ClickTypes, id \in ClickIds :
            resolveClick(t, id, AllAnnotations(document, userAnnotations)) = FirstMatch(t, id)

\* A click that reports an annotation reports the first match of the clicked
\* span and leaves annotations, filter and page alone.
ClickReportsFirstMatch ==
    \A c \in ClickableSpans(displayed) :
        onClick(c) =>
            /\ selectedAnnotation'
                 = FirstMatch(displayed.leaves[c[1]].kids[c[2]].type,
                              displayed.leaves[c[1]].kids[c[2]].annId)
            /\ selectedAnnotation' # <<>>
            /\ UNCHANGED <<document, userAnnotations, activeFilters, currentPage,
                           totalPages>>

\* C19: the click lookup returns the first annotation, AI-detected before
\* user-authored, whose type is the clicked type and whose identifier
\* type-start is the clicked identifier, and nothing when none matches; it
\* looks at every annotation whatever the filter, and a click changes neither
\* the annotations nor the filter nor the page.
C19_ClickResolution == []LookupIsFirstMatch /\ [][ClickReportsFirstMatch]_vars

\* A click has reported an annotation, the lookup finds an annotation that
\* the filter keeps out of the pass, and two annotations share type and start.
C19_Witness ==
    /\ pc = "idle"
    /\ selectedAnnotation # <<>>
    /\ \E i \in 1..Len(AllAnnotations(document, userAnnotations)) :
          /\ i \notin ActiveSrcs
          /\ AnnotationOf(i).position.has
          /\ FirstMatch(AnnotationOf(i).type,
                        AnnotationId(AnnotationOf(i).type, AnnotationOf(i).position)) # <<>>
    /\ \E t \in ClickTypes, id \in ClickIds : Cardinality(MatchesOf(t, id)) > 1

HasChar(str, ch) == \E n \in 1..Len(str) : str[n] = ch

\* C20: for a clause type t without hyphen, the backend converter applied to
\* the frontend converter's result gives t back; for a type h without
\* underscore, the frontend converter applied to the backend converter's
\* result gives h back; both converters return a string of the length of
\* their argument for every string.
C20_ConvertersRoundTrip ==
    \A n \in 1..Len(document.clauses) :
        LET t == document.clauses[n].type
        IN  /\ ~HasChar(t, "-") =>
                  convertClauseTypeToBackendFormat(convertClauseTypeToFrontendFormat(t)) = t
            /\ ~HasChar(t, "_") =>
                  convertClauseTypeToFrontendFormat(convertClauseTypeToBackendFormat(t)) = t
            /\ Len(convertClauseTypeToFrontendFormat(t)) = Len(t)
            /\ Len(convertClauseTypeToBackendFormat(t)) = Len(t)

\* A pass has ended whose filter converted an underscored type into a key of
\* the catalog, which the backend converter turns back into the type.
C20_Witness ==
    /\ PassDone /\ Html
    /\ Len(visibleAnnotations) > 0
    /\ \E n \in 1..Len(document.clauses) :
          LET t == document.clauses[n].type
          IN  /\ HasChar(t, "_") /\ ~HasChar(t, "-")
              /\ convertClauseTypeToFrontendFormat(t) # t
              /\ convertClauseTypeToFrontendFormat(t) \in ToSet(ClauseKeys)
              /\ convertClauseTypeToBackendFormat(convertClauseTypeToFrontendFormat(t)) = t

\* ---------------------------------------------------------------- C21..C30
\* The hyphenated form of the annotation's type is in the filter.
Enabled(a) == ReplaceAll(a.type, "_", "-") \in ToSet(activeFilters)

\* C21: a pass goes through an annotation, AI-detected or user-authored, if
\* and only if the hyphenated form of its type is in the filter; every
\* highlight span of the output has an enabled type.
C21_ActiveSet ==
    (PassDone /\ Html) =>
        /\ \A i \in 1..Len(AllAnnotations(document, userAnnotations)) :
              (i \in ToSet(tree.processed)) <=> Enabled(AnnotationOf(i))
        /\ \A h \in HighlightSpans(displayed) :
              ReplaceAll(h.span.type, "_", "-") \in ToSet(activeFilters)

\* After a toggle, a pass has left out a clause of the disabled type and
\* put the highlight of a clause of an enabled type into the output.
C21_Witness ==
    /\ pc = "idle" /\ Html
    /\ nEvents > 0
    /\ \E i \in 1..Len(document.clauses) :
          /\ ~Enabled(AnnotationOf(i))
          /\ WellFormed(AnnotationOf(i))
    /\ HighlightSpans(displayed) # {}

\* C22: for every annotation with a position (none has an id field), the
\* note key of the detail view is type-start, the identifier the click
\* handler compares against; the span of an annotation carries that
\* identifier, and so does the annotation the detail view shows.
C22_IdentifierAgreement ==
    /\ \A i \in 1..Len(AllAnnotations(document, userAnnotations)) :
          AnnotationOf(i).position.has =>
              /\ detailAnnotationId(AnnotationOf(i))
                   = AnnotationOf(i).type \o <<"-">> \o NumStr(AnnotationOf(i).position.start)
              /\ detailAnnotationId(AnnotationOf(i))
                   = ClickedId(AnnotationOf(i).type, AnnotationOf(i))
    /\ (PassDone /\ Html) =>
          \A h \in HighlightSpans(displayed) :
              h.span.annId = detailAnnotationId(Producer(h.span))
    /\ \A n \in 1..Len(selectedAnnotation) :
          selectedAnnotation[n].position.has =>
              detailAnnotationId(selectedAnnotation[n])
                = AnnotationId(selectedAnnotation[n].type, selectedAnnotation[n].position)

\* The detail view shows an annotation reported by a click, and a span on
\* display carries the note key of that annotation.
C22_Witness ==
    /\ pc = "idle" /\ Html
    /\ selectedAnnotation # <<>>
    /\ selectedAnnotation[1].position.has
    /\ HasChar(selectedAnnotation[1].type, "_")
    /\ \E h \in HighlightSpans(displayed) :
          h.span.annId = detailAnnotationId(selectedAnnotation[1])

\* The content as the analysis service sent it.
RawContent == [pages |-> document.content.pages, leaves |-> document.content.leaves]

\* C23: when content_type is not the structured one, what is displayed is
\* the raw content, with no highlight span, no splice and no page mark, and
\* the pass returns it for every filter and page.
C23_RawFallback ==
    (PassDone /\ ~Html) =>
        /\ displayed = RawContent
        /\ HighlightSpans(displayed) = {}
        /\ tree.splices = <<>>
        /\ \A p \in PageNumbers, f \in {ClauseKeys, <<>>, activeFilters} :
              processContent(document, userAnnotations, f, p) = RawContent

\* After an event, a render of a document that is not structured and has a
\* well-formed clause of an enabled type.
C23_Witness ==
    /\ pc = "idle" /\ ~Html
    /\ nEvents > 0
    /\ lastRun.ran /\ prevRun.ran
    /\ \E i \in ActiveSrcs : WellFormed(AnnotationOf(i))

\* What DocumentPage shows is the viewer of a document: not the spinner, not
\* the error panel.
ShowsDocument == paramsId # 0 /\ ~loading /\ ~error /\ documentId # 0

\* C24 (as claimed): once every fetch has resolved, the document on display
\* is the one of the route's current id, whatever the order in which the
\* responses of a superseded fetch and of the newer fetch arrived.
C24_LastInputWins ==
    (fetches = {} /\ ShowsDocument) => documentId = paramsId

\* C25: at every point of a pass, every highlight span emitted has text in
\* it, and a leaf that an annotation with end <= start lies in is not spliced
\* for that annotation: the loop goes on to the next leaf.
C25_NoEmptyHighlight ==
    (InPass /\ Html) =>
        /\ \A n \in 1..Len(tree.splices) :
              \A h \in SpanPlaces(tree.splices[n].kids) : tree.splices[n].kids[h].s # <<>>
        /\ \A i \in 1..Len(tree.leaves) :
              \A h \in SpanPlaces(tree.leaves[i].kids) : tree.leaves[i].kids[h].s # <<>>
        /\ \A n \in 1..Len(tree.processed) :
              Degenerate(AnnotationOf(tree.processed[n])) =>
                  SplicesOf(tree, tree.processed[n]) = {}

\* A pass has ended in which Case 1 rejected the relative positions of an
\* annotation in a leaf and a later annotation got a span.
C25_Witness ==
    /\ PassDone /\ Html
    /\ \E n \in 1..Len(tree.diag) :
          /\ tree.diag[n].msg = "Invalid relative positions"
          /\ Degenerate(AnnotationOf(tree.diag[n].src))
          /\ \E m \in 1..Len(tree.splices) : tree.splices[m].src # tree.diag[n].src
    /\ HighlightSpans(displayed) # {}

\* The ordered list of the leaf ranges of a sequence of leaves.
LeafRanges(leaves) ==
    [i \in 1..Len(leaves) |->
       [start |-> leaves[i].start, end |-> leaves[i].end, page |-> leaves[i].page]]

\* C26: a splice puts a new element with the attributes of the one it
\* replaces at the same place among the leaves, so at every point of a pass
\* and in its output the ordered list of the leaf ranges (data-start,
\* data-end) is that of the original document.
C26_LeafIndexPreserved ==
    (InPass /\ Html) =>
        /\ LeafRanges(tree.leaves) = LeafRanges(document.content.leaves)
        /\ \A n \in 1..Len(tree.splices) :
              tree.splices[n].at # 0 =>
                  /\ tree.leaves[tree.splices[n].at].start = tree.splices[n].elStart
                  /\ tree.leaves[tree.splices[n].at].end = tree.splices[n].elEnd
        /\ PassDone => LeafRanges(displayed.leaves) = LeafRanges(document.content.leaves)

\* A pass has ended that spliced one leaf twice and a second leaf as well,
\* in a document of two leaves or more.
C26_Witness ==
    /\ PassDone /\ Html
    /\ Len(document.content.leaves) >= 2
    /\ \E n, m \in 1..Len(tree.splices) :
          n < m /\ tree.splices[n].at # 0 /\ tree.splices[n].at = tree.splices[m].at
    /\ \E n, m \in 1..Len(tree.splices) :
          tree.splices[n].at # 0 /\ tree.splices[m].at # 0
          /\ tree.splices[n].at # tree.splices[m].at

\* C27 (as claimed): at every point of a pass and in its output, the text of
\* every leaf with the tooltips left out is the text the leaf had in the
\* original document.
C27_TextPreservation ==
    (InPass /\ Html) =>
        /\ \A i \in 1..Len(tree.leaves) :
              ConcatOwnText(tree.leaves[i].kids, 1)
                  = ConcatOwnText(document.content.leaves[i].kids, 1)
        /\ PassDone =>
              \A i \in 1..Len(displayed.leaves) :
                  ConcatOwnText(displayed.leaves[i].kids, 1)
                      = ConcatOwnText(document.content.leaves[i].kids, 1)

\* C28 (as claimed): while no filter is toggled off, the output of the pass
\* that follows addUserAnnotation(text, start, end), start < end inside one
\* leaf, holds a highlight span with the identifier of the new annotation.
C28_UserAnnotationsRendered ==
    (/\ PassDone /\ Html
     /\ \A k \in ToSet(ClauseKeys) : Includes(activeFilters, k))
        => \A n \in 1..Len(userAnnotations) :
              LET u == userAnnotations[n]
              IN  (/\ u.position.start < u.position.end
                   /\ \E i \in 1..Len(document.content.leaves) :
                         Contained(u, document.content.leaves[i]))
                      => HasSpan(displayed, u)

\* C29 (as claimed): in every state of a session, for documents with any
\* number of page containers, 1 <= currentPage <= totalPages, and in the
\* output of a pass the page container of index currentPage, and no other,
\* is displayed.
C29_PagingInvariant ==
    /\ 1 <= currentPage
    /\ currentPage <= totalPages
    /\ (PassDone /\ Html) =>
          \A p \in 1..Len(displayed.pages) :
              displayed.pages[p] = "block" <=> p = currentPage

\* A save sent in this step, when the annotation has a note, is an update of
\* a note of the annotation.
SaveUpdatesExistingNote ==
    \A r \in noteRequests' \ noteRequests :
        (r.stage = "sent" /\ r.kind \in {"add", "update"}
         /\ NotesOf(r.annotationId) # {})
            => /\ r.kind = "update"
               /\ \E n \in NotesOf(r.annotationId) : notes[n].id = r.noteId

\* C30 (as claimed): in the detail view, however the initial note fetch
\* interleaves with the edits and the saves and whatever the note ids (0
\* included), saveComment creates a note only when the annotation has none;
\* once it has one, fetched or created earlier, every save updates that note.
C30_AtMostOneNote == [][SaveUpdatesExistingNote]_vars

====
